---- MODULE Spec2Model ----
(***************************************************************************)
(* Model of src/regex.py: the State classes, the pattern compiler          *)
(* RegexFSM.__init__ and the backtracking matcher RegexFSM.check_string.   *)
(*                                                                         *)
(* Python objects live in one heap, a sequence of records; an object's     *)
(* identity (`is`) is its index in the heap, None is 0.  Characters are    *)
(* their code points.  __init__ advances one pattern character per step;   *)
(* check_string advances one dfs call or one dfs return per step, on an    *)
(* explicit stack of the frames of the recursion.                          *)
(***************************************************************************)
EXTENDS Integers, Sequences, FiniteSets, TLC

----------------------------------------------------------------------------
(* Bounds of the model *)

\* longest pattern handed to RegexFSM(...)
MaxPat == 3
\* longest text handed to check_string
MaxText == 3
\* depth of the Python call stack at which a call raises RecursionError
\* (sys.getrecursionlimit(), 1000 by default): far above the depth of any
\* terminating search within MaxPat and MaxText
MaxDepth == 16

----------------------------------------------------------------------------
(* Characters *)

Dot == 46
StarChar == 42
PlusChar == 43
\* str.isascii(): code points 0..127
AsciiLimit == 128
\* the string "*+" of lines 109 and 112
Quantifiers == {StarChar, PlusChar}

\* 'a', 'b', '.', '*', '+' and U+0080, the first character that is not ASCII
PatternChars == {97, 98, Dot, StarChar, PlusChar, 128}
TextChars == {97, 98}

RECURSIVE SeqsUpTo(_, _)
SeqsUpTo(S, n) ==
    IF n = 0 THEN {<<>>}
    ELSE LET shorter == SeqsUpTo(S, n - 1)
         IN  shorter \cup {Append(q, c) : q \in {x \in shorter : Len(x) = n - 1}, c \in S}

Patterns == SeqsUpTo(PatternChars, MaxPat)
\* the patterns of supported characters, one character longer
LongPatterns == SeqsUpTo(PatternChars \cap 0..(AsciiLimit - 1), MaxPat + 1)
Texts == SeqsUpTo(TextChars, MaxText)

----------------------------------------------------------------------------
(* State classes, lines 5-90 *)

None == 0

\* State.__init__ and the subclasses' __init__: a fresh object of class cls
NewState(cls, sym, inner, nexts) ==
    [cls |-> cls, curr_sym |-> sym, inner |-> inner, next_states |-> nexts]

\* isinstance(state, (StarState, PlusState)), line 160
IsRepeat_StarOnly(st) == st.cls = "StarState"
IsRepeat(st) == st.cls \in {"StarState", "PlusState"}

\* AsciiState.check_self
AsciiCheckSelf_SwallowAll(st, char) == TRUE
AsciiCheckSelf(st, char) == char = st.curr_sym

\* DotState.check_self
DotCheckSelf_Never(st, char) == FALSE
DotCheckSelf(st, char) == TRUE

\* StartState.check_self and TerminationState.check_self
MarkerCheckSelf(st, char) == FALSE

\* check_self, dispatched on the class of heap[id]; StarState and PlusState
\* forward to their inner state
RECURSIVE check_self(_, _, _)
check_self(heap, id, char) ==
    LET st == heap[id]
    IN  CASE st.cls = "AsciiState" -> AsciiCheckSelf(st, char)
          [] st.cls = "DotState" -> DotCheckSelf(st, char)
          [] IsRepeat(st) -> check_self(heap, st.inner, char)
          [] OTHER -> MarkerCheckSelf(st, char)

----------------------------------------------------------------------------
(* RegexFSM.__init__, lines 97-147 *)

\* list.append on heap[id].next_states
AppendNext(heap, id, node) ==
    [heap EXCEPT ![id].next_states = Append(@, node)]

\* lines 98-102: the state of the constructor when it enters the loop, in a
\* heap that holds the objects heap0 already; self.start is the new Start
NewCompile_SharedStart(heap0) ==
    [heap |-> Append(heap0, NewState("StartState", 0, None, <<>>)),
     start |-> 1,
     states_chain |-> <<1>>,
     preds |-> <<None>>,
     i |-> 0,
     final |-> None,
     pc |-> "compile",
     err_char |-> 0,
     err_pos |-> 0]
NewCompile(heap0) ==
    [heap |-> Append(heap0, NewState("StartState", 0, None, <<>>)),
     start |-> Len(heap0) + 1,
     states_chain |-> <<Len(heap0) + 1>>,
     preds |-> <<None>>,
     i |-> 0,
     final |-> None,
     pc |-> "compile",
     err_char |-> 0,
     err_pos |-> 0]

\* str.isascii, line 109
IsAscii_OffByOne(c) == c <= AsciiLimit
IsAscii(c) == c < AsciiLimit

\* lines 136-141: attach a literal or wildcard node to the tail of the chain
AttachNode_ParentStart(m, node) ==
    LET id == Len(m.heap) + 1
        parent == m.states_chain[Len(m.states_chain)]
    IN  [m EXCEPT !.heap = AppendNext(Append(m.heap, node), parent, id),
                  !.states_chain = Append(@, id),
                  !.preds = Append(@, m.start),
                  !.i = @ + 1]
AttachNode(m, node) ==
    LET id == Len(m.heap) + 1
        parent == m.states_chain[Len(m.states_chain)]
    IN  [m EXCEPT !.heap = AppendNext(Append(m.heap, node), parent, id),
                  !.states_chain = Append(@, id),
                  !.preds = Append(@, parent),
                  !.i = @ + 1]

\* lines 122-125: replace the last entry of the parent's list that is inner
RewireParent_First(nexts, inner, node) ==
    LET hits == {k \in 1..Len(nexts) : nexts[k] = inner}
    IN  IF hits = {} THEN nexts
        ELSE LET first == CHOOSE k \in hits : \A j \in hits : j >= k
             IN  [nexts EXCEPT ![first] = node]
RewireParent_Drop(nexts, inner, node) ==
    LET hits == {k \in 1..Len(nexts) : nexts[k] = inner}
    IN  IF hits = {} THEN nexts
        ELSE LET last == CHOOSE k \in hits : \A j \in hits : j <= k
             IN  SubSeq(nexts, 1, last - 1) \o SubSeq(nexts, last + 1, Len(nexts))
RewireParent(nexts, inner, node) ==
    LET hits == {k \in 1..Len(nexts) : nexts[k] = inner}
    IN  IF hits = {} THEN nexts
        ELSE LET last == CHOOSE k \in hits : \A j \in hits : j <= k
             IN  [nexts EXCEPT ![last] = node]

\* line 127: replace every entry of Start's list that is inner
RewireStart(nexts, inner, node) ==
    [k \in 1..Len(nexts) |-> IF nexts[k] = inner THEN node ELSE nexts[k]]

\* StarState.__init__ / PlusState.__init__, lines 58-62 and 72-76: the new
\* node wraps inner, inner gets the back-edge, the node's list is [inner]
WrapInner_Collapse(heap, cls, inner) ==
    LET id == Len(heap) + 1
        unit == IF IsRepeat(heap[inner]) THEN heap[inner].inner ELSE inner
    IN  AppendNext(Append(heap, NewState(cls, 0, unit, <<unit>>)), unit, id)
WrapInner_NoBackEdge(heap, cls, inner) ==
    Append(heap, NewState(cls, 0, inner, <<inner>>))
WrapInner(heap, cls, inner) ==
    LET id == Len(heap) + 1
    IN  AppendNext(Append(heap, NewState(cls, 0, inner, <<inner>>)), inner, id)

\* line 113: the chain holds only Start
NothingToRepeat_OffByOne(chain) == Len(chain) < 3
NothingToRepeat(chain) == Len(chain) < 2

\* lines 112-131: a quantifier character
Quantify(m, c) ==
    IF NothingToRepeat(m.states_chain)
    THEN [m EXCEPT !.pc = "ValueError", !.err_char = c, !.err_pos = m.i]
    ELSE LET n == Len(m.states_chain)
             inner == m.states_chain[n]
             parent == m.preds[n]
             cls == IF c = StarChar THEN "StarState" ELSE "PlusState"
             node == Len(m.heap) + 1
             wrapped == WrapInner(m.heap, cls, inner)
             rewired ==
                 IF parent # None
                 THEN [wrapped EXCEPT ![parent].next_states =
                                         RewireParent(@, inner, node)]
                 ELSE [wrapped EXCEPT ![m.start].next_states =
                                         RewireStart(@, inner, node)]
         IN  [m EXCEPT !.heap = rewired,
                       !.states_chain = Append(SubSeq(@, 1, n - 1), node),
                       !.preds = Append(SubSeq(@, 1, n - 1), parent),
                       !.i = @ + 1]

\* lines 104-141: one iteration of the loop, on character c = regex_expr[i]
LoopBody(m, c) ==
    IF c = Dot
    THEN AttachNode(m, NewState("DotState", 0, None, <<>>))
    ELSE IF IsAscii(c) /\ c \notin Quantifiers
    THEN AttachNode(m, NewState("AsciiState", c, None, <<>>))
    ELSE IF c \in Quantifiers
    THEN Quantify(m, c)
    ELSE [m EXCEPT !.pc = "AttributeError", !.err_char = c]

\* lines 143-147: the Termination state closes the chain
Finish_Unlinked(m) ==
    [m EXCEPT !.heap = Append(m.heap, NewState("TerminationState", 0, None, <<>>)),
              !.final = Len(m.heap) + 1,
              !.pc = "ready"]
Finish(m) ==
    LET term == Len(m.heap) + 1
        parent == m.states_chain[Len(m.states_chain)]
    IN  [m EXCEPT !.heap = AppendNext(Append(m.heap,
                                 NewState("TerminationState", 0, None, <<>>)),
                                 parent, term),
                  !.final = term,
                  !.pc = "ready"]

\* one step of the constructor: the loop test of line 103, then the body or
\* the lines after the loop
CompileStep(m, regex_expr) ==
    IF m.i < Len(regex_expr)
    THEN LoopBody(m, regex_expr[m.i + 1])
    ELSE Finish(m)

\* RegexFSM(regex_expr): the constructor run to its end (a graph, or an error)
RECURSIVE RunCompile(_, _)
RunCompile(m, regex_expr) ==
    IF m.pc # "compile" THEN m
    ELSE RunCompile(CompileStep(m, regex_expr), regex_expr)

\* RegexFSM(regex_expr), constructed in a heap that holds heap0 already
RegexFSMIn(heap0, regex_expr) == RunCompile(NewCompile(heap0), regex_expr)

\* RegexFSM(regex_expr), the first object of the program
RegexFSM(regex_expr) == RegexFSMIn(<<>>, regex_expr)

----------------------------------------------------------------------------
(* RegexFSM.check_string, lines 149-169 *)

\* a Python bool, as the model carries it beside the outcome "RecursionError"
Bool(b) == IF b THEN "True" ELSE "False"

\* One frame of the call stack: check_string itself (loop "top", the loop of
\* line 166) or a call dfs(state, idx).  A dfs frame is at "entry" when it
\* has just been called, and afterwards in the loop of line 157 ("consume")
\* or of line 161 ("skip"); k is the index in state.next_states of the call
\* it has made and waits for.
Frame(state, idx, loop, k) ==
    [state |-> state, idx |-> idx, loop |-> loop, k |-> k]

Top(stack) == stack[Len(stack)]
Pop(stack) == SubSeq(stack, 1, Len(stack) - 1)

\* a configuration of the search: the heap, the call stack and the value the
\* last finished call has returned ("none" while a call is being entered)
Config(heap, stack, ret) == [heap |-> heap, stack |-> stack, ret |-> ret]

\* `return value`: the top frame ends
Return(heap, stack, value) == Config(heap, Pop(stack), value)

\* the interpreter's limit on the depth of the call stack
TooDeep(stack) == Len(stack) >= MaxDepth

\* the call dfs(nxt, idx) of lines 158, 162 and 167, made by the top frame
\* from position k of the loop it is in; RecursionError unwinds every frame
CallDfs(heap, stack, loop, k, nxt, idx) ==
    IF TooDeep(stack)
    THEN Config(heap, <<>>, "RecursionError")
    ELSE Config(heap,
                Append([stack EXCEPT ![Len(stack)].loop = loop,
                                     ![Len(stack)].k = k],
                       Frame(nxt, idx, "entry", 0)),
                "none")

\* the index a loop hands to dfs: idx + 1 in the loop of line 157
NextIdx_SkipsOne(loop, idx) == IF loop = "consume" THEN idx + 2 ELSE idx
NextIdx(loop, idx) == IF loop = "consume" THEN idx + 1 ELSE idx

\* `for nxt in state.next_states` at its k-th entry: call dfs on it, or leave
\* the loop (exhausted) when the list has no k-th entry
ForNext_Draining(heap, stack, loop, k, exhausted) ==
    LET top == Top(stack)
        nexts == heap[top.state].next_states
    IN  IF nexts # <<>>
        THEN CallDfs([heap EXCEPT ![top.state].next_states = Tail(@)],
                     stack, loop, k, Head(nexts), NextIdx(loop, top.idx))
        ELSE exhausted
ForNext(heap, stack, loop, k, exhausted) ==
    LET top == Top(stack)
        nexts == heap[top.state].next_states
    IN  IF k <= Len(nexts)
        THEN CallDfs(heap, stack, loop, k, nexts[k], NextIdx(loop, top.idx))
        ELSE exhausted

\* lines 160-164: a Repeat state tries every transition at the same index
SkipLoop_Never(heap, stack, k) == Return(heap, stack, "False")
SkipLoop_Always(heap, stack, k) ==
    ForNext(heap, stack, "skip", k, Return(heap, stack, "False"))
SkipLoop(heap, stack, k) ==
    IF IsRepeat(heap[Top(stack).state])
    THEN ForNext(heap, stack, "skip", k, Return(heap, stack, "False"))
    ELSE Return(heap, stack, "False")

\* lines 157-159: every transition at idx + 1, then lines 160-164
ConsumeLoop(heap, stack, k) ==
    ForNext(heap, stack, "consume", k, SkipLoop(heap, stack, 1))

\* lines 166-169: check_string tries every transition of Start at index 0
TopLoop(heap, stack, k) ==
    ForNext(heap, stack, "top", k, Return(heap, stack, "False"))

\* line 155
AtEnd_Prefix(s, idx) == idx <= Len(s)
AtEnd(s, idx) == idx = Len(s)

\* line 156, left operand
InText(s, idx) == idx < Len(s)

\* lines 154-156: a dfs frame that has just been called
Enter(heap, s, stack) ==
    LET top == Top(stack)
    IN  IF heap[top.state].cls = "TerminationState"
        THEN Return(heap, stack, Bool(AtEnd(s, top.idx)))
        ELSE IF InText(s, top.idx) /\ check_self(heap, top.state, s[top.idx + 1])
        THEN ConsumeLoop(heap, stack, 1)
        ELSE SkipLoop(heap, stack, 1)

\* lines 158-159, 162-163, 167-168: the call made from position k of the
\* loop has returned ret; `return True`, or the next entry of the loop
Resume(heap, stack, ret) ==
    LET top == Top(stack)
    IN  IF ret = "True"
        THEN Return(heap, stack, "True")
        ELSE CASE top.loop = "consume" -> ConsumeLoop(heap, stack, top.k + 1)
               [] top.loop = "skip" -> SkipLoop(heap, stack, top.k + 1)
               [] OTHER -> TopLoop(heap, stack, top.k + 1)

\* one step of the search
DfsStep(cfg, s) ==
    IF cfg.ret = "none"
    THEN Enter(cfg.heap, s, cfg.stack)
    ELSE Resume(cfg.heap, cfg.stack, cfg.ret)

\* check_string(s) is called on the object whose Start state is start
CallCheckString(heap, start) ==
    TopLoop(heap, <<Frame(start, 0, "top", 0)>>, 1)

\* the search run to its end
RECURSIVE RunDfs(_, _)
RunDfs(cfg, s) ==
    IF cfg.stack = <<>> THEN cfg ELSE RunDfs(DfsStep(cfg, s), s)

\* check_string(s) on a compiled object m: "True", "False" or
\* "RecursionError"
check_string(m, s) == RunDfs(CallCheckString(m.heap, m.start), s).ret

----------------------------------------------------------------------------
(* The program: a caller constructs RegexFSM(regex_expr) and then calls    *)
(* check_string on it any number of times.                                 *)

VARIABLES
    regex_expr,     \* the argument of RegexFSM(...)
    heap,           \* the State objects created so far
    start,          \* self.start
    final,          \* self.final, None until line 146
    states_chain,   \* the chain stack of __init__
    preds,          \* the parent stack of __init__
    i,              \* the loop index of __init__
    pc,             \* "compile", "ValueError", "AttributeError", "ready",
                    \* "dfs", "returned", "RecursionError"
    err_char,       \* the character an exception of __init__ carries
    err_pos,        \* the position the ValueError carries
    s,              \* the argument of the current check_string call
    stack,          \* the call stack of the current check_string call
    ret,            \* the value the last finished dfs call returned
    result          \* what the last check_string call returned or raised

vars == <<regex_expr, heap, start, final, states_chain, preds, i, pc,
          err_char, err_pos, s, stack, ret, result>>

compileVars == <<heap, start, final, states_chain, preds, i, pc, err_char, err_pos>>
matchVars == <<s, stack, ret, result>>

\* the constructor's state, as the record the operators work on
Cur ==
    [heap |-> heap, start |-> start, states_chain |-> states_chain,
     preds |-> preds, i |-> i, final |-> final, pc |-> pc,
     err_char |-> err_char, err_pos |-> err_pos]

SetCompile(m) ==
    /\ heap' = m.heap
    /\ start' = m.start
    /\ states_chain' = m.states_chain
    /\ preds' = m.preds
    /\ i' = m.i
    /\ final' = m.final
    /\ pc' = m.pc
    /\ err_char' = m.err_char
    /\ err_pos' = m.err_pos

\* the constructor's state is m
SetInit(m) ==
    /\ heap = m.heap
    /\ start = m.start
    /\ states_chain = m.states_chain
    /\ preds = m.preds
    /\ i = m.i
    /\ final = m.final
    /\ pc = m.pc
    /\ err_char = m.err_char
    /\ err_pos = m.err_pos

Init ==
    /\ regex_expr \in Patterns
    /\ SetInit(NewCompile(<<>>))
    /\ s = <<>>
    /\ stack = <<>>
    /\ ret = "none"
    /\ result = "none"

\* lines 103-141: the loop of __init__ takes the next pattern character
CompileChar ==
    /\ pc = "compile"
    /\ i < Len(regex_expr)
    /\ SetCompile(CompileStep(Cur, regex_expr))
    /\ UNCHANGED <<regex_expr, s, stack, ret, result>>

\* lines 143-147: the loop is over, __init__ returns the object
CompileFinish ==
    /\ pc = "compile"
    /\ i >= Len(regex_expr)
    /\ SetCompile(CompileStep(Cur, regex_expr))
    /\ UNCHANGED <<regex_expr, s, stack, ret, result>>

\* where a configuration of the search leaves the program
SetConfig(cfg) ==
    /\ heap' = cfg.heap
    /\ stack' = cfg.stack
    /\ IF cfg.stack # <<>>
       THEN /\ pc' = "dfs"
            /\ ret' = cfg.ret
            /\ result' = "none"
       ELSE /\ pc' = IF cfg.ret = "RecursionError" THEN "RecursionError" ELSE "returned"
            /\ ret' = "none"
            /\ result' = cfg.ret

\* the caller calls check_string(t) on the constructed object
CheckString ==
    /\ pc \in {"ready", "returned", "RecursionError"}
    /\ \E t \in Texts :
          /\ s' = t
          /\ SetConfig(CallCheckString(heap, start))
    /\ UNCHANGED <<regex_expr, start, final, states_chain, preds, i, err_char, err_pos>>

\* a dfs call is entered, or returns to its caller
Dfs ==
    /\ pc = "dfs"
    /\ SetConfig(DfsStep(Config(heap, stack, ret), s))
    /\ UNCHANGED <<regex_expr, start, final, states_chain, preds, i, err_char, err_pos, s>>

Next == CompileChar \/ CompileFinish \/ CheckString \/ Dfs

Spec == Init /\ [][Next]_vars

\* the same program, constructed from the longer patterns
InitLong ==
    /\ regex_expr \in LongPatterns
    /\ SetInit(NewCompile(<<>>))
    /\ s = <<>>
    /\ stack = <<>>
    /\ ret = "none"
    /\ result = "none"

SpecLong == InitLong /\ [][Next]_vars

----------------------------------------------------------------------------
(* Properties *)

Compiled == pc \in {"ready", "dfs", "returned", "RecursionError"}
Failed == pc \in {"ValueError", "AttributeError"}
\* a check_string call has ended
CallEnded == pc \in {"returned", "RecursionError"}

\* a character of the supported pattern alphabet: a single-byte character
SupportedChar(c) == c \in 0..127
SupportedOnly(p) == \A k \in 1..Len(p) : SupportedChar(p[k])

NoConsecutiveQuantifiers(p) ==
    \A k \in 1..(Len(p) - 1) : ~(p[k] \in Quantifiers /\ p[k + 1] \in Quantifiers)
HasQuantifier(p) == \E k \in 1..Len(p) : p[k] \in Quantifiers

\* C1: every check_string call on a compiled pattern ends by returning a
\* boolean; it never raises (its recursion never runs into the limit of the
\* call stack), also for patterns with consecutive quantifier characters.
C1_CheckStringReturnsBoolean ==
    /\ pc # "RecursionError"
    /\ CallEnded => result \in {"True", "False"}

\* The units of a pattern without consecutive quantifiers: each is one
\* literal or wildcard character, repeated or not.
RECURSIVE Units(_)
Units(p) ==
    IF p = <<>> THEN <<>>
    ELSE IF Len(p) >= 2 /\ p[2] \in Quantifiers
    THEN <<[char |-> p[1], rep |-> TRUE]>> \o Units(SubSeq(p, 3, Len(p)))
    ELSE <<[char |-> p[1], rep |-> FALSE]>> \o Units(Tail(p))

UnitAccepts(u, c) == u.char = Dot \/ u.char = c

\* the whole text splits, left to right, according to the units
RECURSIVE Splits(_, _)
Splits(units, text) ==
    IF units = <<>> THEN text = <<>>
    ELSE LET u == Head(units)
             one == text # <<>> /\ UnitAccepts(u, Head(text))
         IN  IF u.rep
             THEN Splits(Tail(units), text) \/ (one /\ Splits(units, Tail(text)))
             ELSE one /\ Splits(Tail(units), Tail(text))

\* C2: for a compiled pattern without consecutive quantifiers,
\* check_string(s) is true iff the whole of s splits according to the
\* pattern's units (a repeated unit takes zero or more characters it accepts).
C2_FullMatchOfUnits ==
    (CallEnded /\ NoConsecutiveQuantifiers(regex_expr))
        => result = Bool(Splits(Units(regex_expr), s))

\* "a*b" accepts "aab"
C2_Witness ==
    /\ pc = "returned"
    /\ regex_expr = <<97, StarChar, 98>>
    /\ s = <<97, 97, 98>>
    /\ result = "True"

\* C3: for a pattern of supported characters the constructor raises the
\* ValueError, carrying the character and position 0, exactly when the first
\* character is a quantifier, the only point where a quantifier meets a chain
\* that holds only Start; every other such pattern compiles.
C3_DanglingQuantifier ==
    /\ (pc = "compile" /\ Len(states_chain) < 2) => i = 0
    /\ pc = "ValueError" =>
          /\ states_chain = <<start>>
          /\ regex_expr[i + 1] \in Quantifiers
    /\ (pc # "compile" /\ SupportedOnly(regex_expr)) =>
          IF regex_expr # <<>> /\ regex_expr[1] \in Quantifiers
          THEN /\ pc = "ValueError"
               /\ err_char = regex_expr[1]
               /\ err_pos = 0
          ELSE Compiled

\* "+a" is refused at position 0 with the character '+'
C3_Witness ==
    /\ pc = "ValueError"
    /\ regex_expr = <<PlusChar, 97>>
    /\ err_char = PlusChar
    /\ err_pos = 0

\* C4: the constructor raises the AttributeError, carrying the character,
\* when its pass reaches a character that is not ASCII (and so is none of
\* '.', '*', '+'): the pass never gets past such a character, it never raises
\* that error on a supported character, and after either error there is no
\* finished object and no check_string call.
C4_UnsupportedSymbol ==
    /\ \A k \in 1..i : SupportedChar(regex_expr[k])
    /\ Compiled => SupportedOnly(regex_expr)
    /\ pc = "AttributeError" =>
          /\ ~SupportedChar(regex_expr[i + 1])
          /\ err_char = regex_expr[i + 1]
    /\ pc = "ValueError" => SupportedChar(regex_expr[i + 1])
    /\ Failed =>
          /\ final = None
          /\ stack = <<>>
          /\ result = "none"
          /\ ~ENABLED CheckString

\* "a" followed by U+0080: the error comes after a unit has been built
C4_Witness ==
    /\ pc = "AttributeError"
    /\ regex_expr = <<97, 128>>
    /\ Len(heap) = 2

\* C5: check_string only reads the graph: during and after any sequence of
\* calls the heap is the one the constructor left, and a call's outcome is
\* the outcome of that call on a freshly compiled object.
C5_CheckStringReadOnly ==
    /\ Compiled => heap = RegexFSM(regex_expr).heap
    /\ CallEnded => result = check_string(RegexFSM(regex_expr), s)

\* a call on "a*b" that has backtracked through the Repeat node has ended
C5_Witness ==
    /\ pc = "returned"
    /\ regex_expr = <<97, StarChar, 98>>
    /\ s = <<97, 98, 97>>
    /\ result = "False"
    /\ heap = RegexFSM(regex_expr).heap

\* the patterns that differ from p only in the kind of their quantifiers
RECURSIVE QuantifierVariants(_)
QuantifierVariants(p) ==
    IF p = <<>> THEN {<<>>}
    ELSE LET heads == IF Head(p) \in Quantifiers THEN Quantifiers ELSE {Head(p)}
         IN  {<<c>> \o q : c \in heads, q \in QuantifierVariants(Tail(p))}

\* C6: the kind of a quantifier does not affect matching: every pattern that
\* differs from a compiled pattern only in '*' against '+' compiles, and
\* check_string has the same outcome on it for every text.
C6_QuantifierKindIrrelevant ==
    CallEnded =>
        \A q \in QuantifierVariants(regex_expr) :
            /\ RegexFSM(q).pc = "ready"
            /\ check_string(RegexFSM(q), s) = result

\* "a+" accepts the empty text: zero occurrences of a unit followed by '+'
C6_Witness ==
    /\ pc = "returned"
    /\ regex_expr = <<97, PlusChar>>
    /\ s = <<>>
    /\ result = "True"

\* C7: a second object compiled from the same pattern, in the heap that
\* already holds the first, leaves the first object's states as they were,
\* and check_string has the same outcome on both objects for every text.
C7_CompileDeterministic ==
    CallEnded =>
        LET second == RegexFSMIn(heap, regex_expr)
            first == [heap |-> second.heap, start |-> start]
        IN  /\ second.pc = "ready"
            /\ second.start # start
            /\ SubSeq(second.heap, 1, Len(heap)) = heap
            /\ check_string(second, s) = result
            /\ check_string(first, s) = result

\* ".+b" accepts "ab", on the first object and on the second
C7_Witness ==
    /\ pc = "returned"
    /\ regex_expr = <<Dot, PlusChar, 98>>
    /\ s = <<97, 98>>
    /\ result = "True"
    /\ check_string(RegexFSMIn(heap, regex_expr), s) = "True"

\* C8: a compiled pattern without quantifier accepts exactly the texts of
\* its own length whose every character equals the pattern's character at
\* that position or stands at a '.'.
C8_NoQuantifierPositional ==
    (CallEnded /\ ~HasQuantifier(regex_expr)) =>
        result = Bool(/\ Len(s) = Len(regex_expr)
                      /\ \A k \in 1..Len(s) :
                            s[k] = regex_expr[k] \/ regex_expr[k] = Dot)

\* "a." accepts "ab"
C8_Witness ==
    /\ pc = "returned"
    /\ regex_expr = <<97, Dot>>
    /\ s = <<97, 98>>
    /\ result = "True"

\* C9: the empty pattern compiles to Start -> Termination and nothing else;
\* that graph accepts the empty text and rejects every other text.
C9_EmptyPattern ==
    (regex_expr = <<>> /\ pc # "compile") =>
        /\ Compiled
        /\ Len(heap) = 2
        /\ heap[start].cls = "StartState"
        /\ heap[start].next_states = <<final>>
        /\ heap[final].cls = "TerminationState"
        /\ CallEnded => result = Bool(s = <<>>)

\* the empty pattern has rejected "a"
C9_Witness ==
    /\ regex_expr = <<>>
    /\ pc = "returned"
    /\ s = <<97>>
    /\ result = "False"

\* the state a chain of Repeat nodes finally wraps
RECURSIVE Base(_, _)
Base(h, id) == IF IsRepeat(h[id]) THEN Base(h, h[id].inner) ELSE id

\* the acceptance test the claim gives a state that is no Repeat node
AcceptsByVariant(st, c) ==
    CASE st.cls = "DotState" -> TRUE
      [] st.cls = "AsciiState" -> c = st.curr_sym
      [] st.cls \in {"StartState", "TerminationState"} -> FALSE

\* C10: check_self of Start and Termination rejects every character, of a
\* wildcard accepts every character, of a literal accepts its symbol only,
\* and of a Repeat node is the test of the state it wraps, through any
\* number of nested Repeat nodes; on every heap the constructor passes
\* through or leaves (a search works on the heap the constructor left).
C10_CheckSelfByVariant ==
    pc # "dfs" =>
        \A id \in 1..Len(heap) : \A c \in PatternChars :
            /\ check_self(heap, id, c) = AcceptsByVariant(heap[Base(heap, id)], c)
            /\ IsRepeat(heap[id]) =>
                  /\ heap[id].inner \in 1..Len(heap)
                  /\ heap[id].inner # id

\* "a*+": a Repeat node whose inner state is a Repeat node accepts 'a' only
C10_Witness ==
    /\ pc = "ready"
    /\ regex_expr = <<97, StarChar, PlusChar>>
    /\ \E id \in 1..Len(heap) :
          /\ IsRepeat(heap[id])
          /\ IsRepeat(heap[heap[id].inner])
          /\ check_self(heap, id, 97)
          /\ ~check_self(heap, id, 98)

\* the constructor is about to process a quantifier character that has a
\* unit to repeat
QuantifierStep ==
    /\ pc = "compile"
    /\ i < Len(regex_expr)
    /\ regex_expr[i + 1] \in Quantifiers
    /\ Len(states_chain) >= 2

RECURSIVE ReachableFrom(_, _, _)
ReachableFrom(h, seen, frontier) ==
    IF frontier = {} THEN seen
    ELSE LET succ == UNION {{h[id].next_states[k] : k \in 1..Len(h[id].next_states)} :
                            id \in frontier}
         IN  ReachableFrom(h, seen \cup frontier, succ \ (seen \cup frontier))

\* C12: a compiled graph has exactly one Start and one Termination, holds a
\* state for every character of the pattern (none is dropped), every state
\* is reachable from Start, and Termination is the only state with an empty
\* transition list.
C12_GraphWellFormed ==
    pc = "ready" =>
        /\ {id \in 1..Len(heap) : heap[id].cls = "StartState"} = {start}
        /\ {id \in 1..Len(heap) : heap[id].cls = "TerminationState"} = {final}
        /\ Len(heap) = Len(regex_expr) + 2
        /\ ReachableFrom(heap, {}, {start}) = 1..Len(heap)
        /\ \A id \in 1..Len(heap) : heap[id].next_states = <<>> <=> id = final

\* "a*+" compiled: the wrapped literal and the wrapped Repeat node are kept
\* and reachable
C12_Witness ==
    /\ pc = "ready"
    /\ regex_expr = <<97, StarChar, PlusChar>>
    /\ Len(heap) = 5
    /\ ReachableFrom(heap, {}, {start}) = 1..5

\* the positions of p that hold a unit followed by a quantifier
QuantifiedUnits(p) ==
    {k \in 1..(Len(p) - 1) : p[k] \notin Quantifiers /\ p[k + 1] \in Quantifiers}

\* p without the unit at position k and the quantifier after it
DeleteUnit(p, k) == SubSeq(p, 1, k - 1) \o SubSeq(p, k + 2, Len(p))

\* every text the pattern without one quantified unit accepts, p accepts
ZeroOccurrenceIncluded(p) ==
    \/ result = "True"
    \/ \A k \in QuantifiedUnits(p) :
          LET q == RegexFSM(DeleteUnit(p, k))
          IN  ~(q.pc = "ready" /\ check_string(q, s) = "True")

\* C13, as claimed: for every compiled pattern p with a unit followed by a
\* quantifier, every text accepted by the pattern without that unit and
\* its quantifier is accepted by p.
C13_ZeroOccurrenceAnyPattern ==
    CallEnded => ZeroOccurrenceIncluded(regex_expr)

\* C13, amended: the same for every compiled pattern p in which no two
\* quantifier characters are consecutive.
C13_ZeroOccurrenceInclusion ==
    (CallEnded /\ NoConsecutiveQuantifiers(regex_expr))
        => ZeroOccurrenceIncluded(regex_expr)

\* "a*a" accepts "a", which "a" accepts: zero occurrences of the first unit
C13_Witness ==
    /\ pc = "returned"
    /\ regex_expr = <<97, StarChar, 97>>
    /\ s = <<97>>
    /\ result = "True"
    /\ check_string(RegexFSM(DeleteUnit(regex_expr, 1)), s) = "True"

\* the orders in which the entries of a list can stand
Reorderings(list) ==
    LET n == Len(list)
        perms == {f \in [1..n -> 1..n] : \A a, b \in 1..n : f[a] = f[b] => a = b}
    IN  {[k \in 1..n |-> list[f[k]]] : f \in perms}

\* the outcome of check_string(s) when the list of state id stands in every
\* possible order is the outcome it has on the graph as compiled
OrderIrrelevantAt(id) ==
    \A list \in Reorderings(heap[id].next_states) :
        check_string([heap |-> [heap EXCEPT ![id].next_states = list],
                      start |-> start], s) = result

\* C14: for every compiled graph and every text, reordering the entries of
\* a state's transition list leaves the outcome of check_string unchanged.
C14_OrderIrrelevant ==
    CallEnded => \A id \in 1..Len(heap) : OrderIrrelevantAt(id)

\* the same, for the patterns in which no two quantifiers are consecutive
OrderIrrelevantWithoutNesting ==
    (CallEnded /\ NoConsecutiveQuantifiers(regex_expr))
        => \A id \in 1..Len(heap) : OrderIrrelevantAt(id)

\* the constructor is about to process a quantifier character that directly
\* follows a quantifier character
SecondQuantifierStep ==
    /\ pc = "compile"
    /\ 1 <= i
    /\ i < Len(regex_expr)
    /\ regex_expr[i] \in Quantifiers
    /\ regex_expr[i + 1] \in Quantifiers

\* C15: a quantifier that directly follows a quantifier is processed
\* without error: the previous Repeat node is popped as inner, a new Repeat
\* node of the character's kind wraps it, the same parent's entry goes from
\* the previous node to the new one, and the new node is pushed with the
\* same parent, so the chain keeps its length.
C15_SecondQuantifierWraps ==
    [][SecondQuantifierStep =>
         LET n == Len(states_chain)
             prev == states_chain[n]
             parent == preds[n]
             node == Len(heap) + 1
         IN  /\ pc' = "compile"
             /\ i' = i + 1
             /\ IsRepeat(heap[prev])
             /\ Len(heap') = node
             /\ heap'[node].cls =
                   (IF regex_expr[i + 1] = StarChar THEN "StarState" ELSE "PlusState")
             /\ heap'[node].inner = prev
             /\ heap'[node].next_states = <<prev>>
             /\ parent # None
             /\ \E k \in 1..Len(heap[parent].next_states) :
                   /\ heap[parent].next_states[k] = prev
                   /\ heap'[parent].next_states =
                         [heap[parent].next_states EXCEPT ![k] = node]
             /\ states_chain' = [states_chain EXCEPT ![n] = node]
             /\ preds' = preds
    ]_vars

\* "a*+" after its '+': the PlusState wraps the StarState and has taken its
\* place in Start's list and on the chain
C15_Witness ==
    /\ pc = "compile"
    /\ regex_expr = <<97, StarChar, PlusChar>>
    /\ i = 3
    /\ heap[4].cls = "PlusState"
    /\ heap[4].inner = 3
    /\ heap[3].cls = "StarState"
    /\ heap[start].next_states = <<4>>
    /\ states_chain = <<start, 4>>

\* the Repeat states a search can come to from the states in frontier
\* without passing a literal or a wildcard
RECURSIVE RepeatsFrom(_, _, _)
RepeatsFrom(h, seen, frontier) ==
    IF frontier = {} THEN seen
    ELSE LET succ == UNION {{h[id].next_states[k] : k \in 1..Len(h[id].next_states)} :
                            id \in frontier}
             repeats == {id \in succ : IsRepeat(h[id])}
         IN  RepeatsFrom(h, seen \cup frontier, repeats \ (seen \cup frontier))

\* a cycle of the graph made of Repeat states only
RepeatOnlyCycle(h) ==
    \E id \in 1..Len(h) :
        /\ IsRepeat(h[id])
        /\ \E k \in 1..Len(h[id].next_states) :
              LET nxt == h[id].next_states[k]
              IN  IsRepeat(h[nxt]) /\ id \in RepeatsFrom(h, {}, {nxt})

\* the dfs calls that are active: every frame above check_string's own
DfsFrames == 2..Len(stack)

\* C16: when no two quantifier characters of the pattern are consecutive,
\* every cycle of the compiled graph passes a literal or a wildcard, the
\* active dfs calls of a search have pairwise different (state, idx), so
\* their number is at most (number of states) * (len(s) + 1), and the
\* search never runs into the limit of the call stack.
C16_NoRepeatedCall ==
    (Compiled /\ NoConsecutiveQuantifiers(regex_expr)) =>
        /\ pc = "ready" => ~RepeatOnlyCycle(heap)
        /\ \A a, b \in DfsFrames :
              (stack[a].state = stack[b].state /\ stack[a].idx = stack[b].idx)
                  => a = b
        /\ Len(stack) <= 1 + Len(heap) * (Len(s) + 1)
        /\ pc # "RecursionError"

\* the search of "aaa" on "a*b" with eight active calls
C16_Witness ==
    /\ pc = "dfs"
    /\ regex_expr = <<97, StarChar, 98>>
    /\ s = <<97, 97, 97>>
    /\ Len(stack) = 9

\* C17: in every dfs call of a search 0 <= idx <= len(s), and a call that
\* has read s[idx] (it is in the loop of line 157) has idx < len(s).
C17_IndexInText ==
    \A k \in 1..Len(stack) :
        /\ stack[k].idx \in 0..Len(s)
        /\ stack[k].loop = "consume" => stack[k].idx < Len(s)

\* dfs has been called on a literal with idx = len(s), after "a" was consumed
C17_Witness ==
    /\ pc = "dfs"
    /\ s = <<97>>
    /\ ret = "none"
    /\ Top(stack).idx = 1
    /\ heap[Top(stack).state].cls = "AsciiState"
    /\ stack[Len(stack) - 1].loop = "consume"

\* the literal and wildcard characters among the first i of the pattern
UnitsProcessed == Cardinality({k \in 1..i : regex_expr[k] \notin Quantifiers})

\* C18: the chain stack and the parent stack of the constructor always have
\* the same length, 1 + the number of literal and wildcard characters
\* processed; each parent entry but the lowest is the chain entry below its
\* own; so a quantifier step pops a parent that is a state whose list holds
\* inner exactly once, never None (the branch of line 127 is never taken).
C18_StacksParallel ==
    /\ Len(states_chain) = 1 + UnitsProcessed
    /\ Len(preds) = Len(states_chain)
    /\ states_chain[1] = start
    /\ preds[1] = None
    /\ \A k \in 2..Len(preds) : preds[k] = states_chain[k - 1]
    /\ QuantifierStep =>
          LET n == Len(states_chain)
              inner == states_chain[n]
              parent == preds[n]
          IN  /\ parent # None
              /\ Cardinality({k \in 1..Len(heap[parent].next_states) :
                                 heap[parent].next_states[k] = inner}) = 1

\* "a*b*" before its second '*': the parent of b is the Repeat node of a
C18_Witness ==
    /\ QuantifierStep
    /\ regex_expr = <<97, StarChar, 98, StarChar>>
    /\ i = 3
    /\ states_chain = <<1, 3, 4>>
    /\ preds = <<None, 1, 3>>

====
